---- MODULE Spec2Model ----
(***************************************************************************)
(* A model of BanTracker (src/bot.py): the BanTracker delta tracker        *)
(* (check_bans), the JSONConfig-backed channel registry of BanTrackerBot   *)
(* (on_ready, subscribe, unsubscribe) and the periodic check_loop that     *)
(* fans the notifications out and prunes failed channels.                  *)
(*                                                                         *)
(* The bot runs on one cooperative scheduler: a handler runs atomically    *)
(* from one await to the next.  Each action below is one such run.         *)
(***************************************************************************)
EXTENDS Integers, Sequences, FiniteSets, TLC

\* An Optional value of the program: None, or Some(v)
None == <<>>
Some(v) == <<v>>
Val(o) == o[1]

\* no channel object is held
NoChannel == "none"

----------------------------------------------------------------------------
\* Bounds of the model

\* number of check_loop iterations explored: by TrackerSpec, and by Spec
MaxTicks == 3
MaxSweepTicks == 2
\* number of subscribe/unsubscribe commands Spec explores
MaxCommands == 1
\* number of commands CommandSpec explores, and of ticks StatsSpec explores
MaxCommandRuns == 2
MaxStatsTicks == 2
\* the counters the endpoint reports are Step * (0..MaxCount)
MaxCount == 2
\* spacing of the sampled counter values: totals cross the 1,000 of the
\* grouping separator
CounterStep == 600

\* destination (channel) ids
Channels == {"A", "B", "C"}

CounterVals == {c * CounterStep : c \in 0..MaxCount}

\* curr_stats.get(...): an integer counter, or None when the field is missing
OptCounters == {None} \cup {Some(c) : c \in CounterVals}

\* What one GET of the endpoint can produce (lines 62-76):
\*   network : the request raises
\*   parse   : the body is not JSON, or not an object
\*   norecord: no (or an empty) `record` key
\*   record  : a `record` object; a counter field it lacks reads as None
FetchResults ==
    {[kind |-> k, wd |-> None, staff |-> None] : k \in {"network", "parse", "norecord"}}
    \cup {[kind |-> "record", wd |-> w, staff |-> s] :
              w \in OptCounters, s \in OptCounters}

\* the fetch results Spec draws from: a failed fetch, or both counters
SweepFetchResults ==
    {r \in FetchResults :
        \/ r.kind = "network"
        \/ /\ r.kind = "record"
           /\ <<r.wd, r.staff>> \in {<<Some(0), Some(0)>>,
                                      <<Some(CounterStep), Some(0)>>,
                                      <<Some(CounterStep), Some(CounterStep)>>}}

\* outcomes of one `await channel.send(message)` (lines 248-253)
SendOutcomes == {"ok", "forbidden", "http"}

----------------------------------------------------------------------------
\* Sequence helpers (Python list operations)

InSeq(x, s) == \E i \in 1..Len(s) : s[i] = x

FirstIndex(x, s) == CHOOSE i \in 1..Len(s) : s[i] = x /\ \A j \in 1..(i - 1) : s[j] # x

\* a removal in constant time: the last element takes the place of x
ListRemove_swap_last(s, x) ==
    LET i == FirstIndex(x, s)
    IN  IF i = Len(s) THEN SubSeq(s, 1, Len(s) - 1)
        ELSE [j \in 1..(Len(s) - 1) |-> IF j = i THEN s[Len(s)] ELSE s[j]]

\* list.remove(x): removes the first occurrence of x (x must occur)
ListRemove(s, x) ==
    LET i == FirstIndex(x, s)
    IN  SubSeq(s, 1, i - 1) \o SubSeq(s, i + 1, Len(s))

SeqSet(s) == {s[i] : i \in 1..Len(s)}

NoDup(s) == \A i, j \in 1..Len(s) : s[i] = s[j] => i = j

\* the channel lists config.json holds at startup: the bot subscribed the
\* channels one after the other
ConfigLists == {SubSeq(<<"A", "B", "C">>, 1, n) : n \in 0..3}

----------------------------------------------------------------------------
VARIABLES
    \* BanTracker (lines 36-43)
    owd_bans, ostaff_bans, total_wd_tracked, total_staff_tracked,
    last_fetch_time, consecutive_errors,
    \* BanTrackerBot and JSONConfig
    channel_ids,        \* self.channel_ids
    config_channels,    \* self.jsonconfig.config["channels"]
    file_channels,      \* "channels" in config.json on disk
    ready_pc,           \* on_ready: "start", "syncing", "running"
    \* check_loop
    pc,                 \* "idle" or "sending" (suspended in channel.send)
    bans,               \* the embeds of this tick
    it,                 \* list iterator of line 243: elements consumed
    channel,            \* the channel being sent to
    msg_i,              \* index in bans of the message being sent
    failed_channels,
    \* environment
    resolvable,         \* ids get_channel resolves
    disk_ok,            \* whether writing config.json succeeds
    ticks,              \* check_loop iterations started; also the clock
    commands,           \* subscribe/unsubscribe commands handled
    \* history (observations only; no action reads them)
    fetched,            \* what the last tick's fetch produced
    before,             \* the tracker when the last tick began
    returned,           \* what check_bans returned in the last tick
    hist,               \* the successfully processed fetches, summarised
    delivered,          \* per channel: messages delivered in this tick
    sweep_start,        \* channel_ids when this tick's sweep began
    forbidden_seen,     \* channels whose send raised Forbidden this tick
    http_seen,          \* channels whose send raised HTTPException this tick
    unresolved_seen,    \* channels get_channel did not resolve this tick
    interleaved,        \* a command changed the registry during the sweep
    touched,            \* the ids commands subscribed or unsubscribed meanwhile
    wrote,              \* calls of JSONConfig.update in the last step
    cmd,                \* the command just handled, with the registry before it
    stats_out,          \* the embed the stats command just returned
    startup,            \* until the first tick: config.json's channels at process
                        \* start and the ids unsubscribed since
    event               \* "tick_end" right after a tick, a command's response
                        \* right after the command, else "none"

tracker_vars == <<owd_bans, ostaff_bans, total_wd_tracked, total_staff_tracked,
                  last_fetch_time, consecutive_errors>>
registry_vars == <<channel_ids, config_channels, file_channels>>
loop_vars == <<pc, bans, it, channel, msg_i, failed_channels>>
tick_hist_vars == <<fetched, before, returned, delivered, sweep_start, forbidden_seen, http_seen,
                    unresolved_seen, interleaved, touched>>
step_hist_vars == <<wrote, cmd, stats_out, startup>>
vars == <<tracker_vars, registry_vars, ready_pc, loop_vars, resolvable, disk_ok, ticks,
          commands, hist, tick_hist_vars, step_hist_vars, event>>

NoDelivery == [c \in Channels |-> <<>>]

----------------------------------------------------------------------------
\* BanTracker.check_bans (lines 61-102)

Tracker ==
    [owd_bans |-> owd_bans, ostaff_bans |-> ostaff_bans,
     total_wd_tracked |-> total_wd_tracked,
     total_staff_tracked |-> total_staff_tracked,
     last_fetch_time |-> last_fetch_time,
     consecutive_errors |-> consecutive_errors]

\* BanTracker.__init__ (lines 36-43)
NewTracker ==
    [owd_bans |-> None, ostaff_bans |-> None,
     total_wd_tracked |-> 0, total_staff_tracked |-> 0,
     last_fetch_time |-> None, consecutive_errors |-> 0]

\* f"{n:,}": the decimal groups of three digits, most significant first
RECURSIVE FormatGrouped(_)
FormatGrouped(n) ==
    IF n < 1000 THEN <<n>> ELSE Append(FormatGrouped(n \div 1000), n % 1000)

\* Embed with the text formatted before the total was updated
Embed_stale_total(cat, dif, total) ==
    [cat |-> cat, dif |-> dif, plural |-> (dif # 1), total |-> FormatGrouped(total - dif)]

\* lines 87-88, 92-93: the notification text
Embed(cat, dif, total) ==
    [cat |-> cat, dif |-> dif, plural |-> (dif # 1), total |-> FormatGrouped(total)]

\* AddDelta without the `> 0` test
AddDelta_signed(total, dif) == total + dif

\* lines 85-86, 90-91: total += dif when dif > 0
AddDelta(total, dif) == IF dif > 0 THEN total + dif ELSE total

\* DeltaEmbeds with `!= 0` for `> 0`
DeltaEmbeds_nonzero(wban_dif, sban_dif, new_wd_total, new_staff_total) ==
    (IF wban_dif # 0 THEN <<Embed("watchdog", wban_dif, new_wd_total)>> ELSE <<>>)
    \o (IF sban_dif # 0 THEN <<Embed("staff", sban_dif, new_staff_total)>> ELSE <<>>)

\* lines 85-93: the embeds, watchdog first, each with the updated total
DeltaEmbeds(wban_dif, sban_dif, new_wd_total, new_staff_total) ==
    (IF wban_dif > 0 THEN <<Embed("watchdog", wban_dif, new_wd_total)>> ELSE <<>>)
    \o (IF sban_dif > 0 THEN <<Embed("staff", sban_dif, new_staff_total)>> ELSE <<>>)

\* line 81
HasBaseline(t) == t.owd_bans # None /\ t.ostaff_bans # None

\* MarkFetched without line 78
MarkFetched_no_reset(t, now) == [t EXCEPT !.last_fetch_time = Some(now)]

\* lines 77-78
MarkFetched(t, now) ==
    [t EXCEPT !.last_fetch_time = Some(now), !.consecutive_errors = 0]

\* StorePrev with the two assignments crossed
StorePrev_crossed(t, wd_bans, staff_bans) ==
    [t EXCEPT !.owd_bans = staff_bans, !.ostaff_bans = wd_bans]

\* StorePrev that keeps the stored count when the new one is lower
StorePrev_monotone(t, wd_bans, staff_bans) ==
    LET keep(old, new) == IF old # None /\ new # None /\ Val(new) < Val(old)
                          THEN old ELSE new
    IN  [t EXCEPT !.owd_bans = keep(@, wd_bans), !.ostaff_bans = keep(@, staff_bans)]

\* lines 95-96
StorePrev(t, wd_bans, staff_bans) ==
    [t EXCEPT !.owd_bans = wd_bans, !.ostaff_bans = staff_bans]

\* RecordError that also drops the baseline
RecordError_drop_baseline(t) ==
    [t EXCEPT !.consecutive_errors = @ + 1, !.owd_bans = None, !.ostaff_bans = None]

\* lines 99-102: the except branch
RecordError(t) == [t EXCEPT !.consecutive_errors = @ + 1]

\* lines 72-73: `if not curr_stats: return []`
NoRecord(t) == t

\* lines 81-97 with both counters present and a baseline
Observe(t, wd_bans, staff_bans) ==
    LET wban_dif == Val(wd_bans) - Val(t.owd_bans)
        sban_dif == Val(staff_bans) - Val(t.ostaff_bans)
        new_wd == AddDelta(t.total_wd_tracked, wban_dif)
        new_staff == AddDelta(t.total_staff_tracked, sban_dif)
    IN  [t |-> StorePrev([t EXCEPT !.total_wd_tracked = new_wd,
                                   !.total_staff_tracked = new_staff],
                         wd_bans, staff_bans),
         embeds |-> DeltaEmbeds(wban_dif, sban_dif, new_wd, new_staff)]

\* the whole of check_bans: the tracker afterwards and the returned embeds
check_bans(t, res, now) ==
    IF res.kind \in {"network", "parse"}
    THEN [t |-> RecordError(t), embeds |-> <<>>]
    ELSE IF res.kind = "norecord"
    THEN [t |-> NoRecord(t), embeds |-> <<>>]
    ELSE LET t1 == MarkFetched(t, now)
         IN  IF HasBaseline(t1)
             THEN IF res.wd = None \/ res.staff = None
                  \* None - int raises TypeError at line 82 or 83
                  THEN [t |-> RecordError(t1), embeds |-> <<>>]
                  ELSE Observe(t1, res.wd, res.staff)
             ELSE [t |-> StorePrev(t1, res.wd, res.staff), embeds |-> <<>>]

\* the fetch produced both counters: check_bans runs to line 97
Processed(res) == res.kind = "record" /\ res.wd # None /\ res.staff # None

----------------------------------------------------------------------------
\* JSONConfig and the registry

\* a walk over the list itself while elements are removed from it: the
\* iterator stands at position i, a removal shifts the rest to the left
RECURSIVE LiveWalk(_, _, _)
LiveWalk(ids, i, res) ==
    IF i > Len(ids) THEN ids
    ELSE IF ids[i] \in res
         THEN LiveWalk(ids, i + 1, res)
         ELSE LiveWalk(ListRemove(ids, ids[i]), i + 1, res)

\* the validation without the [:] of line 142
Validate_live(ids, copy, res) == LiveWalk(ids, 1, res)

\* lines 143-146: remove every id of the copy that does not resolve
RECURSIVE Validate(_, _, _)
Validate(ids, copy, res) ==
    IF copy = <<>> THEN ids
    ELSE IF Head(copy) \in res
         THEN Validate(ids, Tail(copy), res)
         ELSE Validate(ListRemove(ids, Head(copy)), Tail(copy), res)

\* lines 258-260
RECURSIVE Prune(_, _)
Prune(ids, failed) ==
    IF failed = <<>> THEN ids
    ELSE Prune(IF InSeq(Head(failed), ids) THEN ListRemove(ids, Head(failed)) ELSE ids,
               Tail(failed))

\* AfterSendFailure with Forbidden only logged
AfterSendFailure_log_only(failed, channel_id, outcome) == failed

\* lines 249-253: what each exception does to failed_channels
AfterSendFailure(failed, channel_id, outcome) ==
    IF outcome = "forbidden" THEN Append(failed, channel_id) ELSE failed

\* Advance that leaves the loop at the first channel that does not resolve
Advance_break(ids, i, failed, res, unresolved) ==
    IF i >= Len(ids)
    THEN [done |-> TRUE, it |-> i, channel |-> NoChannel, failed |-> failed,
          unresolved |-> unresolved]
    ELSE IF ids[i + 1] \in res
         THEN [done |-> FALSE, it |-> i + 1, channel |-> ids[i + 1], failed |-> failed,
               unresolved |-> unresolved]
         ELSE [done |-> TRUE, it |-> i + 1, channel |-> NoChannel,
               failed |-> Append(failed, ids[i + 1]),
               unresolved |-> unresolved \cup {ids[i + 1]}]

\* lines 243-245, 254-255: run the for loop from iterator position i up to the
\* next channel that resolves (a send is issued) or to the end of the list
RECURSIVE Advance(_, _, _, _, _)
Advance(ids, i, failed, res, unresolved) ==
    IF i >= Len(ids)
    THEN [done |-> TRUE, it |-> i, channel |-> NoChannel, failed |-> failed,
          unresolved |-> unresolved]
    ELSE IF ids[i + 1] \in res
         THEN [done |-> FALSE, it |-> i + 1, channel |-> ids[i + 1], failed |-> failed,
               unresolved |-> unresolved]
         ELSE Advance(ids, i + 1, Append(failed, ids[i + 1]), res,
                      unresolved \cup {ids[i + 1]})

----------------------------------------------------------------------------
NoFetch == [kind |-> "none", wd |-> None, staff |-> None]

\* The history of the successfully processed fetches, kept as what its sums
\* need: how many there were, the counters of the last one, and per category
\* the sum of the strictly positive differences between consecutive ones.
NoHistory == [n |-> 0, wd |-> None, staff |-> None, wd_sum |-> 0, staff_sum |-> 0]

PositivePart(d) == IF d > 0 THEN d ELSE 0

Record(h, wd, staff) ==
    [n |-> h.n + 1, wd |-> Some(wd), staff |-> Some(staff),
     wd_sum |-> IF h.n = 0 THEN 0 ELSE h.wd_sum + PositivePart(wd - Val(h.wd)),
     staff_sum |-> IF h.n = 0 THEN 0 ELSE h.staff_sum + PositivePart(staff - Val(h.staff))]

\* no command was just handled
NoCmd == [op |-> "none", id |-> NoChannel, perm |-> FALSE, before |-> <<>>, twice |-> FALSE]

\* the stats command did not just answer
NoStats == [answered |-> FALSE]

\* the loop has ticked: the startup record is closed
NoStartup == [open |-> FALSE, channels |-> <<>>, unsubscribed |-> {}]

\* Python's truth value of an Optional integer: None and 0 are false
Truthy(o) == o # None /\ Val(o) # 0

\* the test of line 122 written as `is not None`
ShowsCurrentTotal_is_not_none(t) == t.owd_bans # None /\ t.ostaff_bans # None

\* line 122: `if self.owd_bans and self.ostaff_bans`
ShowsCurrentTotal(t) == Truthy(t.owd_bans) /\ Truthy(t.ostaff_bans)

\* line 9 imports the class datetime.datetime under the name datetime; the
\* constant UTC belongs to the module datetime, the class has no such
\* attribute, so evaluating `datetime.UTC` (line 111) raises AttributeError
DatetimeHasUTC == FALSE

\* BanTracker.get_stats_embed (lines 104-125): the embed is not built when
\* line 111 raises; otherwise its fields, with start_time 0 on the model's
\* clock
get_stats_embed(t, now) ==
    IF ~DatetimeHasUTC THEN [answered |-> FALSE] ELSE
    [answered |-> TRUE,
     wd_tracked |-> FormatGrouped(t.total_wd_tracked),
     staff_tracked |-> FormatGrouped(t.total_staff_tracked),
     total_tracked |-> FormatGrouped(t.total_wd_tracked + t.total_staff_tracked),
     uptime |-> now - 0,
     last_check |-> IF Truthy(t.last_fetch_time) THEN t.last_fetch_time ELSE None,
     current_total |-> IF ShowsCurrentTotal(t)
                       THEN Some(FormatGrouped(Val(t.owd_bans) + Val(t.ostaff_bans)))
                       ELSE None]

\* BanTracker.__init__ (lines 36-43), BanTrackerBot.__init__ (lines 129-135),
\* JSONConfig.__init__ (lines 21-24)
Init ==
    /\ owd_bans = NewTracker.owd_bans
    /\ ostaff_bans = NewTracker.ostaff_bans
    /\ total_wd_tracked = NewTracker.total_wd_tracked
    /\ total_staff_tracked = NewTracker.total_staff_tracked
    /\ last_fetch_time = NewTracker.last_fetch_time
    /\ consecutive_errors = NewTracker.consecutive_errors
    /\ file_channels \in ConfigLists
    /\ config_channels = file_channels
    /\ channel_ids = <<>>
    /\ ready_pc = "start"
    /\ pc = "idle"
    /\ bans = <<>>
    /\ it = 0
    /\ channel = NoChannel
    /\ msg_i = 0
    /\ failed_channels = <<>>
    /\ resolvable = Channels
    /\ disk_ok = TRUE
    /\ ticks = 0
    /\ commands = 0
    /\ fetched = NoFetch
    /\ before = NewTracker
    /\ returned = <<>>
    /\ hist = NoHistory
    /\ delivered = NoDelivery
    /\ sweep_start = <<>>
    /\ forbidden_seen = {}
    /\ http_seen = {}
    /\ unresolved_seen = {}
    /\ interleaved = FALSE
    /\ touched = {}
    /\ wrote = 0
    /\ cmd = NoCmd
    /\ stats_out = NoStats
    /\ startup = [open |-> TRUE, channels |-> file_channels, unsubscribed |-> {}]
    /\ event = "none"

\* What a handler other than check_loop does to the per-tick history: between
\* ticks it closes the record of the last tick, during a sweep it notes the
\* ids whose membership it changed.
CommandHistory(changed) ==
    IF pc = "idle"
    THEN /\ fetched' = NoFetch
         /\ before' = NewTracker
         /\ returned' = <<>>
         /\ delivered' = NoDelivery
         /\ sweep_start' = <<>>
         /\ forbidden_seen' = {}
         /\ http_seen' = {}
         /\ unresolved_seen' = {}
         /\ interleaved' = FALSE
         /\ touched' = {}
    ELSE /\ interleaved' = (interleaved \/ changed # {})
         /\ touched' = touched \cup changed
         /\ UNCHANGED <<fetched, before, returned, delivered, sweep_start,
                        forbidden_seen, http_seen, unresolved_seen>>

\* JSONConfig.update without the write to the file
Update_memory_only(value) ==
    /\ config_channels' = value
    /\ file_channels' = file_channels
    /\ wrote' = 1

\* JSONConfig.update("channels", value) (lines 26-29): line 27 always takes
\* effect; open() of line 28 raises OSError when the disk refuses the write
Update(value) ==
    /\ config_channels' = value
    /\ file_channels' = IF disk_ok THEN value ELSE file_channels
    /\ wrote' = 1

\* no call of JSONConfig.update
NoUpdate ==
    /\ UNCHANGED <<config_channels, file_channels>>
    /\ wrote' = 0

\* on_ready up to its first suspension in tree.sync (lines 138-150); when
\* line 149 raises, on_ready ends there and check_loop is never started
OnReadyHydrate ==
    /\ ready_pc = "start"
    /\ LET loaded == config_channels
           valid == Validate(loaded, loaded, resolvable)
       IN  /\ channel_ids' = valid
           /\ IF valid # loaded
              THEN /\ Update(valid)
                   /\ ready_pc' = IF disk_ok THEN "syncing" ELSE "failed"
              ELSE /\ NoUpdate
                   /\ ready_pc' = "syncing"
    /\ event' = "none"
    /\ cmd' = NoCmd
    /\ stats_out' = NoStats
    /\ CommandHistory({})
    /\ UNCHANGED <<tracker_vars, loop_vars, resolvable, disk_ok, ticks, commands, hist,
                   startup>>

\* on_ready after the syncs: check_loop.start() (line 159)
OnReadyStart ==
    /\ ready_pc = "syncing"
    /\ ready_pc' = "running"
    /\ event' = "none"
    /\ cmd' = NoCmd
    /\ stats_out' = NoStats
    /\ NoUpdate
    /\ CommandHistory({})
    /\ UNCHANGED <<tracker_vars, channel_ids, loop_vars, resolvable, disk_ok, ticks,
                   commands, hist, startup>>

\* the permission test without its `not`: nobody is turned away
Permitted_everyone(manage_channels) == TRUE

\* lines 170, 188: interaction.user.guild_permissions.manage_channels
Permitted(manage_channels) == manage_channels

\* the membership test that never finds the id
IsSubscribed_never(ids, channel_id) == FALSE

\* lines 177, 195: interaction.channel_id in self.channel_ids
IsSubscribed(ids, channel_id) == InSeq(channel_id, ids)

\* the record of a command: what it was, the registry and its persisted form
\* before it, and whether the command handled just before was the same one
Command(op, channel_id, manage_channels) ==
    [op |-> op, id |-> channel_id, perm |-> manage_channels,
     before |-> <<channel_ids, file_channels>>,
     twice |-> /\ cmd.op = op
               /\ cmd.id = channel_id
               /\ cmd.perm = manage_channels]

\* subscribe (lines 167-183)
Subscribe(channel_id, manage_channels) ==
    /\ IF ~Permitted(manage_channels)
       THEN /\ event' = "denied"
            /\ UNCHANGED channel_ids
            /\ NoUpdate
            /\ CommandHistory({})
       ELSE IF ~IsSubscribed(channel_ids, channel_id)
       THEN /\ channel_ids' = Append(channel_ids, channel_id)
            /\ Update(channel_ids')
            /\ event' = IF disk_ok THEN "subscribed" ELSE "error"
            /\ CommandHistory({channel_id})
       ELSE /\ event' = "already_subscribed"
            /\ UNCHANGED channel_ids
            /\ NoUpdate
            /\ CommandHistory({})
    /\ commands' = commands + 1
    /\ cmd' = Command("subscribe", channel_id, manage_channels)
    /\ stats_out' = NoStats
    /\ UNCHANGED <<tracker_vars, ready_pc, loop_vars, resolvable, disk_ok, ticks, hist,
                   startup>>

\* unsubscribe (lines 185-201)
Unsubscribe(channel_id, manage_channels) ==
    /\ IF ~Permitted(manage_channels)
       THEN /\ event' = "denied"
            /\ UNCHANGED <<channel_ids, startup>>
            /\ NoUpdate
            /\ CommandHistory({})
       ELSE IF IsSubscribed(channel_ids, channel_id)
       THEN /\ channel_ids' = ListRemove(channel_ids, channel_id)
            /\ Update(channel_ids')
            /\ event' = IF disk_ok THEN "unsubscribed" ELSE "error"
            /\ startup' = IF startup.open
                          THEN [startup EXCEPT !.unsubscribed = @ \cup {channel_id}]
                          ELSE startup
            /\ CommandHistory({channel_id})
       ELSE /\ event' = "not_subscribed"
            /\ UNCHANGED <<channel_ids, startup>>
            /\ NoUpdate
            /\ CommandHistory({})
    /\ commands' = commands + 1
    /\ cmd' = Command("unsubscribe", channel_id, manage_channels)
    /\ stats_out' = NoStats
    /\ UNCHANGED <<tracker_vars, ready_pc, loop_vars, resolvable, disk_ok, ticks, hist>>

\* stats (lines 203-207): when get_stats_embed raises, line 207 is not
\* reached and the command is not answered
Stats ==
    /\ stats_out' = get_stats_embed(Tracker, ticks)
    /\ event' = "stats"
    /\ cmd' = NoCmd
    /\ NoUpdate
    /\ CommandHistory({})
    /\ UNCHANGED <<tracker_vars, channel_ids, ready_pc, loop_vars, resolvable, disk_ok,
                   ticks, commands, hist, startup>>

\* the transport stops resolving a channel (deleted, or the bot left the guild)
ChannelDeleted(channel_id) ==
    /\ channel_id \in resolvable
    /\ resolvable' = resolvable \ {channel_id}
    /\ event' = "none"
    /\ cmd' = NoCmd
    /\ stats_out' = NoStats
    /\ NoUpdate
    /\ CommandHistory({})
    /\ UNCHANGED <<tracker_vars, channel_ids, ready_pc, loop_vars, disk_ok, ticks,
                   commands, hist, startup>>

\* the disk starts, or stops, refusing writes (full, read-only, no permission)
DiskChanges ==
    /\ disk_ok' = ~disk_ok
    /\ event' = "none"
    /\ cmd' = NoCmd
    /\ stats_out' = NoStats
    /\ NoUpdate
    /\ CommandHistory({})
    /\ UNCHANGED <<tracker_vars, channel_ids, ready_pc, loop_vars, resolvable, ticks,
                   commands, hist, startup>>

\* check_loop from the head of the for loop (line 243) at iterator position i
\* to its next suspension or to its end (lines 257-262)
ContinueSweep(embeds, i, failed, unresolved) ==
    LET a == Advance(channel_ids, i, failed, resolvable, unresolved)
    IN  /\ unresolved_seen' = a.unresolved
        /\ IF a.done
           THEN /\ pc' = "idle"
                /\ it' = 0
                /\ channel' = NoChannel
                /\ msg_i' = 0
                /\ failed_channels' = <<>>
                /\ bans' = <<>>
                /\ event' = "tick_end"
                /\ IF a.failed # <<>>
                   THEN /\ channel_ids' = Prune(channel_ids, a.failed)
                        /\ Update(channel_ids')
                   ELSE /\ UNCHANGED channel_ids
                        /\ NoUpdate
           ELSE /\ pc' = "sending"
                /\ it' = a.it
                /\ channel' = a.channel
                /\ msg_i' = 1
                /\ failed_channels' = a.failed
                /\ bans' = embeds
                /\ event' = "none"
                /\ UNCHANGED channel_ids
                /\ NoUpdate

\* one iteration of check_loop from its start to its first suspension in
\* channel.send, or to its end (lines 239-262); the fetch inside check_bans
\* has produced res
Tick(res) ==
    /\ ready_pc = "running"
    /\ pc = "idle"
    /\ ticks' = ticks + 1
    /\ fetched' = res
    /\ before' = Tracker
    /\ cmd' = NoCmd
    /\ stats_out' = NoStats
    /\ startup' = NoStartup
    /\ LET r == check_bans(Tracker, res, ticks + 1)
       IN  /\ returned' = r.embeds
           /\ owd_bans' = r.t.owd_bans
           /\ ostaff_bans' = r.t.ostaff_bans
           /\ total_wd_tracked' = r.t.total_wd_tracked
           /\ total_staff_tracked' = r.t.total_staff_tracked
           /\ last_fetch_time' = r.t.last_fetch_time
           /\ consecutive_errors' = r.t.consecutive_errors
           /\ hist' = IF Processed(res) THEN Record(hist, Val(res.wd), Val(res.staff)) ELSE hist
           /\ delivered' = NoDelivery
           /\ forbidden_seen' = {}
           /\ http_seen' = {}
           /\ interleaved' = FALSE
           /\ touched' = {}
           /\ IF r.embeds # <<>>
              THEN /\ sweep_start' = channel_ids
                   /\ ContinueSweep(r.embeds, 0, <<>>, {})
              ELSE /\ sweep_start' = <<>>
                   /\ unresolved_seen' = {}
                   /\ event' = "tick_end"
                   /\ NoUpdate
                   /\ UNCHANGED <<channel_ids, loop_vars>>
    /\ UNCHANGED <<ready_pc, resolvable, disk_ok, commands>>

\* check_loop resumes from `await channel.send(message)` (line 248) with the
\* send's outcome and runs to its next suspension or to its end
SendDone(outcome) ==
    /\ pc = "sending"
    /\ IF outcome = "ok"
       THEN /\ delivered' = [delivered EXCEPT ![channel] = Append(@, bans[msg_i])]
            /\ UNCHANGED <<forbidden_seen, http_seen>>
            /\ IF msg_i < Len(bans)
               THEN /\ msg_i' = msg_i + 1
                    /\ event' = "none"
                    /\ NoUpdate
                    /\ UNCHANGED <<pc, bans, it, channel, failed_channels,
                                   channel_ids, unresolved_seen>>
               ELSE ContinueSweep(bans, it, failed_channels, unresolved_seen)
       ELSE /\ forbidden_seen' =
                   IF outcome = "forbidden" THEN forbidden_seen \cup {channel}
                   ELSE forbidden_seen
            /\ http_seen' =
                   IF outcome = "http" THEN http_seen \cup {channel} ELSE http_seen
            /\ UNCHANGED delivered
            /\ ContinueSweep(bans, it, AfterSendFailure(failed_channels, channel, outcome),
                             unresolved_seen)
    /\ cmd' = NoCmd
    /\ stats_out' = NoStats
    /\ UNCHANGED <<tracker_vars, ready_pc, resolvable, disk_ok, ticks, commands, hist,
                   fetched, before, returned, sweep_start, interleaved, touched, startup>>

Next ==
    \/ OnReadyHydrate
    \/ OnReadyStart
    \/ \E c \in Channels, p \in BOOLEAN : commands < MaxCommands /\ Subscribe(c, p)
    \/ \E c \in Channels, p \in BOOLEAN : commands < MaxCommands /\ Unsubscribe(c, p)
    \/ \E c \in Channels : ChannelDeleted(c)
    \/ \E res \in SweepFetchResults : ticks < MaxSweepTicks /\ Tick(res)
    \/ \E o \in SendOutcomes : SendDone(o)

\* the bot with its commands and the transport's channel deletions
Spec == Init /\ [][Next]_vars

NextTracker ==
    \/ OnReadyHydrate
    \/ OnReadyStart
    \/ \E res \in FetchResults : ticks < MaxTicks /\ Tick(res)
    \/ \E o \in SendOutcomes : SendDone(o)

\* the bot while no command arrives and no channel is deleted: every fetch
\* result, more ticks
TrackerSpec == Init /\ [][NextTracker]_vars

NextCommands ==
    \/ OnReadyHydrate
    \/ OnReadyStart
    \/ \E c \in Channels, p \in BOOLEAN : commands < MaxCommandRuns /\ Subscribe(c, p)
    \/ \E c \in Channels, p \in BOOLEAN : commands < MaxCommandRuns /\ Unsubscribe(c, p)
    \/ \E c \in Channels : ChannelDeleted(c)

\* the bot before its loop ticks: startup and more commands
CommandSpec == Init /\ [][NextCommands]_vars

NextStats ==
    \/ OnReadyHydrate
    \/ OnReadyStart
    \/ \E res \in FetchResults : ticks < MaxStatsTicks /\ Tick(res)
    \/ \E o \in SendOutcomes : SendDone(o)
    \/ Stats

\* the tracker with the stats command
StatsSpec == Init /\ [][NextStats]_vars

NextWriteFail ==
    \/ OnReadyHydrate
    \/ OnReadyStart
    \/ \E c \in Channels, p \in BOOLEAN : commands < MaxCommands /\ Subscribe(c, p)
    \/ \E c \in Channels, p \in BOOLEAN : commands < MaxCommands /\ Unsubscribe(c, p)
    \/ \E c \in Channels : ChannelDeleted(c)
    \/ \E res \in SweepFetchResults : ticks < MaxSweepTicks /\ Tick(res)
    \/ \E o \in SendOutcomes : SendDone(o)
    \/ DiskChanges

\* the bot on a disk that may refuse writes
WriteFailSpec == Init /\ [][NextWriteFail]_vars

----------------------------------------------------------------------------
\* Properties.  fetched, before and returned describe the last tick; they are
\* meaningful while fetched.kind # "none".

\* the value a grouped text stands for
RECURSIVE ParseGrouped(_)
ParseGrouped(g) ==
    IF g = <<>> THEN 0
    ELSE ParseGrouped(SubSeq(g, 1, Len(g) - 1)) * 1000 + g[Len(g)]

\* the deltas of the last tick (both counters fetched, baseline present)
DeltaWd == Val(fetched.wd) - Val(before.owd_bans)
DeltaStaff == Val(fetched.staff) - Val(before.ostaff_bans)

Observed == Processed(fetched) /\ HasBaseline(before)

\* C1: each cumulative total never decreases and equals the sum of the
\* strictly positive differences between consecutive successfully processed
\* counter values of its category.
C1_TotalsAreSumOfPositiveDeltas ==
    /\ total_wd_tracked = hist.wd_sum
    /\ total_staff_tracked = hist.staff_sum
    /\ fetched.kind # "none" =>
          /\ total_wd_tracked >= before.total_wd_tracked
          /\ total_staff_tracked >= before.total_staff_tracked

\* a counter went up and then down again: the total kept the rise
C1_Witness ==
    /\ HasBaseline(Tracker)
    /\ total_wd_tracked > 0
    /\ Val(owd_bans) < total_wd_tracked
    /\ total_staff_tracked > 0

\* C2: the first successfully processed fetch returns no notification, leaves
\* both totals at 0, stores the fetched counts and delivers nothing.
C2_FirstFetchIsBaselineOnly ==
    (hist.n = 1 /\ Processed(fetched)) =>
        /\ returned = <<>>
        /\ total_wd_tracked = 0
        /\ total_staff_tracked = 0
        /\ owd_bans = fetched.wd
        /\ ostaff_bans = fetched.staff
        /\ pc = "idle"
        /\ event = "tick_end"
        /\ delivered = NoDelivery

\* the first processed fetch, after a failed one, with channels subscribed
C2_Witness ==
    /\ hist.n = 1
    /\ Processed(fetched)
    /\ before.consecutive_errors = 1
    /\ channel_ids = <<"A", "B", "C">>
    /\ owd_bans = Some(MaxCount * CounterStep)
    /\ ostaff_bans = Some(0)

\* C3: with a baseline, a category whose fetched counter is not above the
\* stored one emits no notification and keeps its total; when that is so for
\* both, the tick returns nothing and contacts no destination.
C3_NonPositiveDeltaIsIgnored ==
    Observed =>
        /\ DeltaWd <= 0 =>
              /\ total_wd_tracked = before.total_wd_tracked
              /\ \A i \in 1..Len(returned) : returned[i].cat # "watchdog"
        /\ DeltaStaff <= 0 =>
              /\ total_staff_tracked = before.total_staff_tracked
              /\ \A i \in 1..Len(returned) : returned[i].cat # "staff"
        /\ (DeltaWd <= 0 /\ DeltaStaff <= 0) =>
              /\ returned = <<>>
              /\ pc = "idle"
              /\ event = "tick_end"
              /\ delivered = NoDelivery

\* a counter reset next to an unchanged counter, totals already above 0
C3_Witness ==
    /\ Observed
    /\ DeltaWd < 0
    /\ DeltaStaff = 0
    /\ before.total_wd_tracked > 0
    /\ channel_ids # <<>>

\* C4: with a baseline, a processed fetch returns one notification per
\* category whose delta is above 0, watchdog before staff, each carrying the
\* delta and the total of its category after the delta was added.
C4_OneNotificationPerPositiveDelta ==
    Observed =>
        LET nwd == IF DeltaWd > 0 THEN 1 ELSE 0
            nstaff == IF DeltaStaff > 0 THEN 1 ELSE 0
        IN  /\ Len(returned) = nwd + nstaff
            /\ DeltaWd > 0 =>
                  /\ returned[1].cat = "watchdog"
                  /\ returned[1].dif = DeltaWd
                  /\ total_wd_tracked = before.total_wd_tracked + DeltaWd
                  /\ ParseGrouped(returned[1].total) = total_wd_tracked
            /\ DeltaStaff > 0 =>
                  /\ returned[nwd + 1].cat = "staff"
                  /\ returned[nwd + 1].dif = DeltaStaff
                  /\ total_staff_tracked = before.total_staff_tracked + DeltaStaff
                  /\ ParseGrouped(returned[nwd + 1].total) = total_staff_tracked

\* both categories fire, and the watchdog total needs a grouping separator
C4_Witness ==
    /\ Observed
    /\ Len(returned) = 2
    /\ Len(returned[1].total) = 2
    /\ before.total_staff_tracked > 0

\* C5: after every processed fetch the stored previous counts are the counts
\* just fetched, whether or not a delta fired; at any time they are the counts
\* of the last processed fetch, so a delta after a reset is measured from the
\* reset value.
C5_PreviousCountsFollowTheFetch ==
    /\ Processed(fetched) => (owd_bans = fetched.wd /\ ostaff_bans = fetched.staff)
    /\ hist.n > 0 => (owd_bans = hist.wd /\ ostaff_bans = hist.staff)

\* right after a counter reset: no notification, the lower value is stored
C5_Witness ==
    /\ Observed
    /\ DeltaWd < 0
    /\ returned = <<>>
    /\ owd_bans = fetched.wd
    /\ Val(owd_bans) < Val(before.owd_bans)

\* the destinations whose delivery failed in the last tick, by kind
FailedAnyKind == forbidden_seen \cup http_seen \cup unresolved_seen
FailedAndMarked == forbidden_seen \cup unresolved_seen

Without(s, gone) == SelectSeq(s, LAMBDA d : d \notin gone)

NotifyingTickEnded == event = "tick_end" /\ returned # <<>>

FetchFailed(res, t) ==
    \/ res.kind \in {"network", "parse", "norecord"}
    \/ res.kind = "record" /\ ~Processed(res) /\ HasBaseline(t)

\* C8: a tick whose fetch fails attempts no delivery and leaves the registry,
\* its persisted form, the stored previous counts and both totals unchanged;
\* the loop stays ready for its next tick.
C8_FailedFetchChangesNothing ==
    [][(ticks' = ticks + 1 /\ FetchFailed(fetched', Tracker)) =>
          /\ UNCHANGED <<channel_ids, config_channels, file_channels>>
          /\ UNCHANGED <<owd_bans, ostaff_bans, total_wd_tracked, total_staff_tracked>>
          /\ returned' = <<>>
          /\ delivered' = NoDelivery
          /\ pc' = "idle"
          /\ ready_pc' = "running"]_vars

\* a failed fetch with a baseline, totals above 0 and channels subscribed
C8_Witness ==
    /\ fetched.kind = "network"
    /\ event = "tick_end"
    /\ HasBaseline(Tracker)
    /\ total_wd_tracked > 0
    /\ channel_ids # <<>>
    /\ consecutive_errors = 1

\* C9: every tick whose fetch fails (network error, unparseable body, or a
\* response without the `record` key) increments consecutive_errors by
\* exactly one.
C9_EveryFailedFetchIsCounted ==
    fetched.kind \in {"network", "parse", "norecord"} =>
        consecutive_errors = before.consecutive_errors + 1

\* C10: a tick whose fetch succeeds with both counters leaves
\* consecutive_errors at 0, with or without a baseline, whether or not a
\* delta fired.
C10_SuccessResetsTheErrorCount ==
    Processed(fetched) => consecutive_errors = 0

\* a processed fetch right after a failed one, with a delta firing
C10_Witness ==
    /\ Observed
    /\ before.consecutive_errors > 0
    /\ returned # <<>>
    /\ consecutive_errors = 0


\* the registry and its persisted form
Registry == <<channel_ids, file_channels>>

\* C11: once on_ready has hydrated the registry, and while every write
\* succeeds, the channels sequence in config.json equals the in-memory
\* registry, same ids in the same order, in every state: after a subscribe, an
\* unsubscribe, the startup validation and a tick's pruning, and at every
\* suspension point of a sweep
C11_PersistedEqualsRegistry ==
    (disk_ok /\ ready_pc # "start") => file_channels = channel_ids

\* a subscribe has just added an id to the hydrated registry and persisted it
C11_Witness ==
    /\ ready_pc = "running"
    /\ event = "subscribed"
    /\ wrote = 1
    /\ Len(channel_ids) >= 2
    /\ file_channels = channel_ids

\* C12: subscribe and unsubscribe are idempotent: when the same command for
\* the same destination is handled twice in a row, the second one leaves the
\* in-memory registry and its persisted form as the first one left them
C12_SecondCallChangesNothing ==
    cmd.twice => Registry = cmd.before

\* a permitted subscribe of an id was just repeated
C12_Witness ==
    /\ cmd.twice
    /\ cmd.perm
    /\ cmd.op = "subscribe"
    /\ event = "already_subscribed"
    /\ InSeq(cmd.id, channel_ids)
    /\ Len(channel_ids) >= 2

\* a permitted unsubscribe of an id was just repeated
C12_WitnessUnsubscribe ==
    /\ cmd.twice
    /\ cmd.perm
    /\ cmd.op = "unsubscribe"
    /\ event = "not_subscribed"
    /\ channel_ids # <<>>

\* C13: a subscribe or an unsubscribe from a caller without the
\* manage_channels permission is answered with the denial and leaves the
\* in-memory registry and the persisted channels sequence as they were
C13_DeniedCommandChangesNothing ==
    (cmd.op # "none" /\ ~cmd.perm) => (event = "denied" /\ wrote = 0 /\ Registry = cmd.before)

\* an unsubscribe of a subscribed channel was denied in the middle of a sweep
C13_Witness ==
    /\ cmd.op = "unsubscribe"
    /\ ~cmd.perm
    /\ event = "denied"
    /\ pc = "sending"
    /\ InSeq(cmd.id, channel_ids)

\* C14: when the write of config.json fails during a subscribe, an
\* unsubscribe, the startup validation or a tick's pruning, the in-memory
\* registry and the persisted channels sequence agree afterwards (the change
\* was rolled back, or the write retried until it succeeded)
C14_FailedWriteLeavesNoDivergence ==
    (ready_pc # "start" /\ wrote = 1 /\ ~disk_ok) => file_channels = channel_ids

\* C15: the stats command reads the tracker without changing it and answers
\* with an embed that shows the current absolute counter sum (previous
\* watchdog count + previous staff count) exactly when a baseline has been
\* established, whatever the baseline counters are
C15_StatsShowCurrentTotalIffBaseline ==
    event = "stats" =>
        /\ stats_out.answered
        /\ stats_out.current_total # None <=> HasBaseline(Tracker)
        /\ HasBaseline(Tracker) =>
               ParseGrouped(Val(stats_out.current_total)) = Val(owd_bans) + Val(ostaff_bans)

\* the destinations the sweep that just ended owed every notification: members
\* of the registry when the sweep started, not touched by a subscribe or an
\* unsubscribe during the tick, resolving, and with no failed send
OwedEverything ==
    {d \in SeqSet(sweep_start) : /\ d \notin touched
                                 /\ d \in resolvable
                                 /\ d \in SeqSet(channel_ids)
                                 /\ d \notin FailedAnyKind}

\* C16: with subscribe and unsubscribe handled at the suspension points of a
\* notifying tick, every destination that was a member when the sweep
\* started, stayed subscribed through the tick, resolves and whose sends
\* succeed has received each notification of the tick exactly once and in
\* order when the tick ends; an unsubscribe of another destination does not
\* make the sweep skip it
C16_UntouchedMemberGetsEveryNotification ==
    NotifyingTickEnded => \A d \in OwedEverything : delivered[d] = returned

\* on_ready has just run its validation
Validated == ready_pc = "start" /\ ready_pc' # "start"

\* C17: the startup validation of on_ready leaves in the registry exactly the
\* persisted ids that get_channel resolves, in their original relative order;
\* when it removed an id the result is persisted by one write, and when it
\* removed nothing nothing is written
C17_ValidationKeepsExactlyTheResolvable ==
    [][Validated =>
          /\ channel_ids' = Without(file_channels, Channels \ resolvable)
          /\ file_channels' = channel_ids'
          /\ wrote' = IF channel_ids' # file_channels THEN 1 ELSE 0]_vars

\* the validation has just removed an id from between ids it kept and
\* persisted the rest; no command has been handled
C17_Witness ==
    /\ ready_pc = "syncing"
    /\ commands = 0
    /\ wrote = 1
    /\ channel_ids = <<"A", "C">>
    /\ file_channels = channel_ids
    /\ resolvable = {"A", "C"}

\* d stands before e in s
Precedes(d, e, s) == FirstIndex(d, s) < FirstIndex(e, s)

\* the ids in both lists stand in the same relative order in both
SameRelativeOrder(s, t) ==
    \A d, e \in SeqSet(s) \cap SeqSet(t) : Precedes(d, e, s) <=> Precedes(d, e, t)

\* C18: config.json holding no id twice, the registry holds no id twice in
\* any reachable state, whatever the interleaving of subscribe, unsubscribe,
\* the startup validation and the ticks' pruning, and no step changes the
\* relative order of the ids that remain in it (the registry is empty, so
\* without duplicates, after construction)
C18_NoDuplicateAndOrderKept ==
    [][/\ NoDup(channel_ids')
       /\ SameRelativeOrder(channel_ids, channel_ids')]_vars

\* an unsubscribe has just removed the first of three ids in the middle of a
\* sweep; the other two remain in their order
C18_Witness ==
    /\ event = "unsubscribed"
    /\ pc = "sending"
    /\ cmd.before[1] = <<"A", "B", "C">>
    /\ channel_ids = <<"B", "C">>

\* the destinations persisted when the process started that resolve and were
\* not unsubscribed since
PersistedAtStartAndKept ==
    (SeqSet(startup.channels) \cap resolvable) \ startup.unsubscribed

\* C19: hydration loses no persisted subscription: once on_ready has
\* completed, every destination of config.json's channels at process start
\* that resolves and was never unsubscribed is in the registry and in the
\* persisted sequence, also when a subscribe or an unsubscribe was handled
\* before on_ready hydrated the registry
C19_HydrationLosesNoSubscription ==
    (ready_pc = "running" /\ startup.open) =>
        \A d \in PersistedAtStartAndKept : InSeq(d, channel_ids) /\ InSeq(d, file_channels)

\* the last tick ended by incrementing consecutive_errors (lines 99-100)
ErrorRecorded ==
    fetched # NoFetch /\ consecutive_errors = before.consecutive_errors + 1

\* C20: a tick that ends by incrementing consecutive_errors, the one whose
\* record lacks a counter while a baseline exists included, leaves
\* last_fetch_time as it was: last_fetch_time moves only in a tick whose
\* fetch is processed successfully
C20_ErrorLeavesLastFetchTime ==
    ErrorRecorded => last_fetch_time = before.last_fetch_time

====
